---- MODULE Spec2Model ----
(***************************************************************************)
(* Model of services/ai-analysis-service/main.py: the /v1/analyze handler  *)
(* (request validation by the pydantic models, the per-implementation      *)
(* heuristic rules, the summary) and the stateless endpoints /health,      *)
(* /ready, /v1/models and /v1/train.                                       *)
(*                                                                         *)
(* Encoding.  Strings the code inspects (protocol_version, cipher_suite)   *)
(* are sequences of one-character strings, so that "in" is a real          *)
(* substring search; strings the code only copies (id, protocol,           *)
(* analysis_type) are TLA+ strings.  The floats of the code are integral   *)
(* (20.0, 70.0, 80.0, 90.0) and are integers here; confidence values are   *)
(* in hundredths (0.95 is 95).  A JSON value of a request body is a tagged *)
(* tuple <<"str", s>>, <<"int", n>>, <<"float", h>>, <<"null">> or         *)
(* <<"missing">> (the key is absent).  Optional[int] after validation is   *)
(* <<>> (None) or <<n>>.                                                   *)
(***************************************************************************)
EXTENDS Integers, Sequences, FiniteSets, TLC

\* ------------------------------------------------------------ bounds
\* Longest batch of the serial specification.
MaxLen == 2
\* Number of request handlers that may be in flight at once.
MaxProcs == 2

Procs == 1..MaxProcs

\* ------------------------------------------------- program constants
DefaultRisk == 20
VersionRisk == 80
KeyRisk == 70
CipherRisk == 90
MinKeySize == 2048
HighRiskThreshold == 70
Confidence == 95
StatusOK == 200
StatusUnprocessable == 422
StatusNotImplemented == 501

V10 == <<"1", ".", "0">>
V11 == <<"1", ".", "1">>
V12 == <<"1", ".", "2">>
V100 == <<"1", ".", "0", "0">>
RC4 == <<"R", "C", "4">>
MD5 == <<"M", "D", "5">>
AES256 == <<"A", "E", "S", "2", "5", "6">>
RC4MD5 == <<"R", "C", "4", "-", "M", "D", "5">>
DESMD5 == <<"D", "E", "S", "-", "M", "D", "5">>
LowerRc4Md5 == <<"r", "c", "4", "-", "m", "d", "5">>
SplitRC4 == <<"R", "C", "-", "4">>
EmptyStr == <<>>

RecUpgrade == "Upgrade to TLS 1.2 or higher"
RecKeySize == "Increase key size to 2048 bits or higher"
RecCipher == "Replace weak cipher suite"

None == <<>>
Some(n) == <<n>>

\* ------------------------------------------------------ pure helpers
Max(a, b) == IF a >= b THEN a ELSE b

\* Python's "needle in hay" on strings.
Contains(needle, hay) ==
    \E k \in 0..(Len(hay) - Len(needle)) :
        SubSeq(hay, k + 1, k + Len(needle)) = needle

\* Python's "x in [a, b]" on a list.
InList(x, list) == \E k \in 1..Len(list) : list[k] = x

\* Python's truth value of an Optional[int]: None and 0 are false.
Truthy(k) == k # None /\ k[1] # 0

\* ----------------------------------------- request validation (pydantic)
IsStr(j) == j[1] = "str"
IsNumber(j) == j[1] = "int" \/ j[1] = "float"
IsOptionalInt(j) == j[1] = "null" \/ j[1] = "int"

ValidImplementation(r) ==
    /\ IsStr(r.id)
    /\ IsStr(r.protocol)
    /\ IsStr(r.protocol_version)
    /\ IsStr(r.cipher_suite)
    /\ IsOptionalInt(r.key_size)
    /\ IsNumber(r.confidence_score)

ValidRequest(body) ==
    /\ IsStr(body.analysis_type)
    /\ \A k \in 1..Len(body.crypto_implementations) :
          ValidImplementation(body.crypto_implementations[k])

ParseImplementation(r) ==
    [id |-> r.id[2],
     protocol |-> r.protocol[2],
     protocol_version |-> r.protocol_version[2],
     cipher_suite |-> r.cipher_suite[2],
     key_size |-> IF r.key_size[1] = "null" THEN None ELSE Some(r.key_size[2]),
     confidence_score |-> r.confidence_score[2]]

ParseRequest(body) ==
    [crypto_implementations |->
        [k \in 1..Len(body.crypto_implementations) |->
            ParseImplementation(body.crypto_implementations[k])],
     analysis_type |-> body.analysis_type[2]]

NoRequest == [crypto_implementations |-> <<>>, analysis_type |-> ""]
NoBody == [crypto_implementations |-> <<>>, analysis_type |-> <<"missing">>]

\* ------------------------------------------------- the heuristic rules
\* The three locals of one loop iteration, as a record.
FreshLocals ==
    [risk_score |-> DefaultRisk, anomaly_detected |-> FALSE,
     recommendations |-> <<>>]

VersionIsWeak(impl) == InList(impl.protocol_version, <<V10, V11>>)

\* Variant: the bound is inclusive, a key of exactly 2048 bits is weak.
KeySizeIsWeak_Inclusive(impl) ==
    Truthy(impl.key_size) /\ impl.key_size[1] <= MinKeySize

KeySizeIsWeak(impl) == Truthy(impl.key_size) /\ impl.key_size[1] < MinKeySize

\* Variant: only RC4 is looked for.
CipherIsWeak_Rc4Only(impl) == Contains(RC4, impl.cipher_suite)

CipherIsWeak(impl) ==
    Contains(RC4, impl.cipher_suite) \/ Contains(MD5, impl.cipher_suite)

ApplyVersionRule(impl, loc) ==
    IF VersionIsWeak(impl)
    THEN [risk_score |-> VersionRisk, anomaly_detected |-> TRUE,
          recommendations |-> Append(loc.recommendations, RecUpgrade)]
    ELSE loc

\* Variant: the score is assigned, as the version rule does, not maximised.
ApplyKeySizeRule_Overwrite(impl, loc) ==
    IF KeySizeIsWeak(impl)
    THEN [risk_score |-> KeyRisk, anomaly_detected |-> TRUE,
          recommendations |-> Append(loc.recommendations, RecKeySize)]
    ELSE loc

\* Variant: the rule forgets to raise the anomaly flag.
ApplyKeySizeRule_NoFlag(impl, loc) ==
    IF KeySizeIsWeak(impl)
    THEN [risk_score |-> Max(loc.risk_score, KeyRisk),
          anomaly_detected |-> loc.anomaly_detected,
          recommendations |-> Append(loc.recommendations, RecKeySize)]
    ELSE loc

ApplyKeySizeRule(impl, loc) ==
    IF KeySizeIsWeak(impl)
    THEN [risk_score |-> Max(loc.risk_score, KeyRisk), anomaly_detected |-> TRUE,
          recommendations |-> Append(loc.recommendations, RecKeySize)]
    ELSE loc

\* Variant: the recommendation is inserted at the front.
ApplyCipherRule_Prepend(impl, loc) ==
    IF CipherIsWeak(impl)
    THEN [risk_score |-> Max(loc.risk_score, CipherRisk), anomaly_detected |-> TRUE,
          recommendations |-> <<RecCipher>> \o loc.recommendations]
    ELSE loc

ApplyCipherRule(impl, loc) ==
    IF CipherIsWeak(impl)
    THEN [risk_score |-> Max(loc.risk_score, CipherRisk), anomaly_detected |-> TRUE,
          recommendations |-> Append(loc.recommendations, RecCipher)]
    ELSE loc

\* Variant: the input's confidence_score is passed through.
MakeResult_EchoConfidence(impl, analysis_type, loc) ==
    [implementation_id |-> impl.id,
     analysis_type |-> analysis_type,
     risk_score |-> loc.risk_score,
     anomaly_detected |-> loc.anomaly_detected,
     confidence |-> impl.confidence_score,
     recommendations |-> loc.recommendations]

MakeResult(impl, analysis_type, loc) ==
    [implementation_id |-> impl.id,
     analysis_type |-> analysis_type,
     risk_score |-> loc.risk_score,
     anomaly_detected |-> loc.anomaly_detected,
     confidence |-> Confidence,
     recommendations |-> loc.recommendations]

\* Variant: the result is inserted at the front.
AppendResult_Prepend(rs, r) == <<r>> \o rs

AppendResult(rs, r) == Append(rs, r)

\* ------------------------------------------------------------ summary
\* Variant: the comparison is not strict.
HighRiskCount_AtLeast(rs) ==
    Cardinality({k \in 1..Len(rs) : rs[k].risk_score >= HighRiskThreshold})

HighRiskCount(rs) ==
    Cardinality({k \in 1..Len(rs) : rs[k].risk_score > HighRiskThreshold})

AnomaliesCount(rs) ==
    Cardinality({k \in 1..Len(rs) : rs[k].anomaly_detected})

OverallRiskLevel(high) == IF high > 0 THEN "high" ELSE "low"

MakeSummary(rs) ==
    [total_analyzed |-> Len(rs),
     high_risk_count |-> HighRiskCount(rs),
     anomalies_detected |-> AnomaliesCount(rs),
     overall_risk_level |-> OverallRiskLevel(HighRiskCount(rs))]

NoSummary ==
    [total_analyzed |-> 0, high_risk_count |-> 0, anomalies_detected |-> 0,
     overall_risk_level |-> ""]

NoResponse == [status |-> 0, results |-> <<>>, summary |-> NoSummary]

\* ------------------------------------------------------------- inputs
RawImpl(id, proto, ver, cipher, key, conf) ==
    [id |-> id, protocol |-> <<"str", proto>>,
     protocol_version |-> <<"str", ver>>, cipher_suite |-> <<"str", cipher>>,
     key_size |-> key, confidence_score |-> <<"float", conf>>]

RawIds == {<<"str", "a">>, <<"missing">>}
Versions == {V10, V11, V12, V100}
CipherSuites == {AES256, RC4MD5, DESMD5, LowerRc4Md5, SplitRC4, EmptyStr}
RawKeySizes ==
    {<<"null">>, <<"str", "abc">>} \cup
    {<<"int", n>> : n \in {-1, 0, 1, 1024, 2047, 2048, 4096}}
AnalysisTypes == {"risk_scoring", "anomaly_detection"}

\* Every combination of the inspected fields, one implementation per request.
WideImpls ==
    {RawImpl(i, "TLS", v, c, k, 50) :
        i \in RawIds, v \in Versions, c \in CipherSuites, k \in RawKeySizes}

\* A few implementations, one per combination of rules, for the batches.
ImplBenign == RawImpl(<<"str", "a">>, "TLS", V12, AES256, <<"int", 2048>>, 50)
ImplOldVersion == RawImpl(<<"str", "b">>, "TLS", V10, AES256, <<"null">>, 50)
ImplSmallKey == RawImpl(<<"str", "c">>, "TLS", V12, AES256, <<"int", 1024>>, 50)
ImplWeakCipher == RawImpl(<<"str", "d">>, "TLS", V12, DESMD5, <<"int", 4096>>, 50)
ImplAllWeak == RawImpl(<<"str", "e">>, "TLS", V11, RC4MD5, <<"int", 1024>>, 50)
ImplNoId == RawImpl(<<"missing">>, "TLS", V12, AES256, <<"int", 2048>>, 50)
\* ImplOldVersion with another protocol and another confidence_score.
ImplOldVersionSsh == RawImpl(<<"str", "b">>, "SSH", V10, AES256, <<"null">>, 100)

CoreImpls ==
    {ImplBenign, ImplOldVersion, ImplSmallKey, ImplWeakCipher, ImplAllWeak, ImplNoId}

SeqsUpTo(S, n) == UNION {[1..k -> S] : k \in 0..n}

RawRequest(impls, t) ==
    [crypto_implementations |-> impls, analysis_type |-> <<"str", t>>]

SerialRequests ==
    {RawRequest(s, t) :
        s \in {<<w>> : w \in WideImpls} \cup SeqsUpTo(CoreImpls, MaxLen),
        t \in AnalysisTypes}

ConcurrentRequests ==
    {RawRequest(s, "risk_scoring") :
        s \in {<<ImplAllWeak, ImplOldVersion>>, <<ImplOldVersionSsh, ImplSmallKey>>,
               <<ImplOldVersion>>, <<ImplOldVersionSsh>>}}

\* -------------------------------------------------------------- state
VARIABLES
    pc,               \* per handler: where it is in analyze_crypto_implementations
    body,             \* per handler: the request body as received
    request,          \* per handler: the validated AnalysisRequest
    idx,              \* per handler: number of implementations the loop has taken
    risk_score,       \* per handler: the loop's local
    anomaly_detected, \* per handler: the loop's local
    recommendations,  \* per handler: the loop's local
    results,          \* per handler: the list being built
    response,         \* per handler: what the handler returned
    probe             \* the last answer of /health, /ready, /v1/models, /v1/train

vars ==
    <<pc, body, request, idx, risk_score, anomaly_detected, recommendations,
      results, response, probe>>

Init ==
    /\ pc = [p \in Procs |-> "idle"]
    /\ body = [p \in Procs |-> NoBody]
    /\ request = [p \in Procs |-> NoRequest]
    /\ idx = [p \in Procs |-> 0]
    /\ risk_score = [p \in Procs |-> DefaultRisk]
    /\ anomaly_detected = [p \in Procs |-> FALSE]
    /\ recommendations = [p \in Procs |-> <<>>]
    /\ results = [p \in Procs |-> <<>>]
    /\ response = [p \in Procs |-> NoResponse]
    /\ probe = [status |-> 0, body |-> "none"]

Impl(p) == request[p].crypto_implementations[idx[p]]

Locals(p) ==
    [risk_score |-> risk_score[p], anomaly_detected |-> anomaly_detected[p],
     recommendations |-> recommendations[p]]

SetLocals(p, loc) ==
    /\ risk_score' = [risk_score EXCEPT ![p] = loc.risk_score]
    /\ anomaly_detected' = [anomaly_detected EXCEPT ![p] = loc.anomaly_detected]
    /\ recommendations' = [recommendations EXCEPT ![p] = loc.recommendations]

\* ------------------------------------------------------------ actions
\* POST /v1/analyze arrives: the framework validates the body against
\* AnalysisRequest; an invalid body is answered 422 and the handler is not
\* called, a valid one enters the handler (results = []).
Receive(p, b) ==
    /\ pc[p] = "idle"
    /\ body' = [body EXCEPT ![p] = b]
    /\ IF ValidRequest(b)
       THEN /\ request' = [request EXCEPT ![p] = ParseRequest(b)]
            /\ pc' = [pc EXCEPT ![p] = "loop"]
            /\ response' = response
       ELSE /\ request' = request
            /\ pc' = [pc EXCEPT ![p] = "done"]
            /\ response' = [response EXCEPT ![p] =
                  [status |-> StatusUnprocessable, results |-> <<>>,
                   summary |-> NoSummary]]
    /\ results' = [results EXCEPT ![p] = <<>>]
    /\ idx' = [idx EXCEPT ![p] = 0]
    /\ UNCHANGED <<risk_score, anomaly_detected, recommendations, probe>>

\* The for loop takes the next implementation and resets the three locals.
NextImplementation(p) ==
    /\ pc[p] = "loop"
    /\ idx[p] < Len(request[p].crypto_implementations)
    /\ idx' = [idx EXCEPT ![p] = idx[p] + 1]
    /\ SetLocals(p, FreshLocals)
    /\ pc' = [pc EXCEPT ![p] = "version"]
    /\ UNCHANGED <<body, request, results, response, probe>>

VersionRule(p) ==
    /\ pc[p] = "version"
    /\ SetLocals(p, ApplyVersionRule(Impl(p), Locals(p)))
    /\ pc' = [pc EXCEPT ![p] = "keysize"]
    /\ UNCHANGED <<body, request, idx, results, response, probe>>

KeySizeRule(p) ==
    /\ pc[p] = "keysize"
    /\ SetLocals(p, ApplyKeySizeRule(Impl(p), Locals(p)))
    /\ pc' = [pc EXCEPT ![p] = "cipher"]
    /\ UNCHANGED <<body, request, idx, results, response, probe>>

CipherRule(p) ==
    /\ pc[p] = "cipher"
    /\ SetLocals(p, ApplyCipherRule(Impl(p), Locals(p)))
    /\ pc' = [pc EXCEPT ![p] = "emit"]
    /\ UNCHANGED <<body, request, idx, results, response, probe>>

Emit(p) ==
    /\ pc[p] = "emit"
    /\ results' = [results EXCEPT ![p] =
          AppendResult(results[p],
                       MakeResult(Impl(p), request[p].analysis_type, Locals(p)))]
    /\ pc' = [pc EXCEPT ![p] = "loop"]
    /\ UNCHANGED <<body, request, idx, risk_score, anomaly_detected,
                   recommendations, response, probe>>

\* The loop is exhausted: the summary is derived and the response returned.
Summarize(p) ==
    /\ pc[p] = "loop"
    /\ idx[p] = Len(request[p].crypto_implementations)
    /\ response' = [response EXCEPT ![p] =
          [status |-> StatusOK, results |-> results[p],
           summary |-> MakeSummary(results[p])]]
    /\ pc' = [pc EXCEPT ![p] = "done"]
    /\ UNCHANGED <<body, request, idx, risk_score, anomaly_detected,
                   recommendations, results, probe>>

\* The response has been sent: nothing of the request is kept.
Reply(p) ==
    /\ pc[p] = "done"
    /\ pc' = [pc EXCEPT ![p] = "idle"]
    /\ body' = [body EXCEPT ![p] = NoBody]
    /\ request' = [request EXCEPT ![p] = NoRequest]
    /\ idx' = [idx EXCEPT ![p] = 0]
    /\ SetLocals(p, FreshLocals)
    /\ results' = [results EXCEPT ![p] = <<>>]
    /\ response' = [response EXCEPT ![p] = NoResponse]
    /\ UNCHANGED probe

HealthCheck ==
    /\ probe' = [status |-> StatusOK, body |-> "healthy"]
    /\ UNCHANGED <<pc, body, request, idx, risk_score, anomaly_detected,
                   recommendations, results, response>>

ReadinessCheck ==
    /\ probe' = [status |-> StatusOK, body |-> "ready"]
    /\ UNCHANGED <<pc, body, request, idx, risk_score, anomaly_detected,
                   recommendations, results, response>>

TrainModel ==
    /\ probe' = [status |-> StatusNotImplemented,
                 body |-> "Model training not yet implemented"]
    /\ UNCHANGED <<pc, body, request, idx, risk_score, anomaly_detected,
                   recommendations, results, response>>

ListModels ==
    /\ probe' = [status |-> StatusOK, body |-> "models"]
    /\ UNCHANGED <<pc, body, request, idx, risk_score, anomaly_detected,
                   recommendations, results, response>>

\* ----------------------------------------------------- specifications
\* The handler has no await: on the event loop a request runs from its
\* validation to its response before the next one is taken.
ReceiveSerial(p, b) ==
    /\ \A q \in Procs : pc[q] = "idle"
    /\ Receive(p, b)

Handle(p) ==
    \/ NextImplementation(p)
    \/ VersionRule(p)
    \/ KeySizeRule(p)
    \/ CipherRule(p)
    \/ Emit(p)
    \/ Summarize(p)
    \/ Reply(p)

Next ==
    \/ \E p \in Procs : \E b \in SerialRequests : ReceiveSerial(p, b)
    \/ \E p \in Procs : Handle(p)

Spec == Init /\ [][Next]_vars

\* Handlers in parallel workers or threads: any interleaving of their steps
\* and of the other endpoints.
NextConcurrent ==
    \/ \E p \in Procs : \E b \in ConcurrentRequests : Receive(p, b)
    \/ \E p \in Procs : Handle(p)
    \/ HealthCheck
    \/ ReadinessCheck
    \/ TrainModel
    \/ ListModels

SpecConcurrent == Init /\ [][NextConcurrent]_vars

\* ================================================================ claims
Answered(p) == pc[p] = "done" /\ response[p].status = StatusOK
Items(p) == body[p].crypto_implementations
Positions(p) == 1..Len(Items(p))
Result(p, i) == response[p].results[i]
Recs(p, i) == {Result(p, i).recommendations[k] :
                  k \in 1..Len(Result(p, i).recommendations)}

\* What the request says about one implementation, read from the body.
SaysOldVersion(r) == r.protocol_version[2] = V10 \/ r.protocol_version[2] = V11
SaysWeakCipher(r) ==
    Contains(RC4, r.cipher_suite[2]) \/ Contains(MD5, r.cipher_suite[2])
SaysKeyBelow(r) == r.key_size[1] = "int" /\ r.key_size[2] < 2048
SaysKeyAbsentOrLarge(r) ==
    r.key_size[1] = "null" \/ (r.key_size[1] = "int" /\ r.key_size[2] >= 2048)
\* The key-size rule fires: the key is present, below 2048 and not 0.
KeyRuleFires(r) == SaysKeyBelow(r) /\ r.key_size[2] # 0

\* C1: a response has as many results as the request has implementations,
\* and result i carries the id of implementation i and the request's
\* analysis_type.
C1_SameLengthSameOrder ==
    \A p \in Procs : Answered(p) =>
        /\ Len(response[p].results) = Len(Items(p))
        /\ \A i \in Positions(p) :
              /\ Result(p, i).implementation_id = Items(p)[i].id[2]
              /\ Result(p, i).analysis_type = body[p].analysis_type[2]

C1_Witness ==
    \E p \in Procs :
        /\ Answered(p)
        /\ Len(Items(p)) = 2
        /\ Items(p)[1].id # Items(p)[2].id
        /\ Result(p, 2).implementation_id = Items(p)[2].id[2]

\* C2: every implementation evaluated with a key_size that is an integer
\* below 2048 gets the key-size recommendation, risk_score >= 70 and
\* anomaly_detected.
C2_KeyBelow2048Flagged ==
    \A p \in Procs : Answered(p) =>
        \A i \in Positions(p) : SaysKeyBelow(Items(p)[i]) =>
            /\ RecKeySize \in Recs(p, i)
            /\ Result(p, i).risk_score >= 70
            /\ Result(p, i).anomaly_detected

\* C3: a request with a negative key_size or a missing id is answered with
\* a client error, and the scoring loop never holds an implementation whose
\* key_size is neither null nor a positive integer.
C3_NonPositiveKeyRejected ==
    \A p \in Procs :
        /\ pc[p] \in {"version", "keysize", "cipher", "emit"} =>
              (Impl(p).key_size = None \/ Impl(p).key_size[1] > 0)
        /\ (pc[p] = "done" /\ \E i \in Positions(p) :
                \/ Items(p)[i].id[1] = "missing"
                \/ (Items(p)[i].key_size[1] = "int" /\ Items(p)[i].key_size[2] < 0))
              => response[p].status = StatusUnprocessable

\* C4: the summary counts the results, those with risk_score > 70 and those
\* with anomaly_detected; the level is "high" exactly when a result has
\* risk_score > 70 and "low" otherwise; the empty request gives the empty
\* result list and the summary 0, 0, 0, "low".
C4_SummaryCounts ==
    \A p \in Procs : Answered(p) =>
        LET rs == response[p].results
            sm == response[p].summary
        IN  /\ sm.total_analyzed = Len(rs)
            /\ sm.high_risk_count =
                  Cardinality({i \in 1..Len(rs) : rs[i].risk_score > 70})
            /\ sm.anomalies_detected =
                  Cardinality({i \in 1..Len(rs) : rs[i].anomaly_detected})
            /\ sm.overall_risk_level \in {"high", "low"}
            /\ sm.overall_risk_level = "high" <=> sm.high_risk_count > 0
            /\ Items(p) = <<>> =>
                  /\ rs = <<>>
                  /\ sm = [total_analyzed |-> 0, high_risk_count |-> 0,
                           anomalies_detected |-> 0, overall_risk_level |-> "low"]

C4_Witness ==
    \E p \in Procs :
        /\ Answered(p)
        /\ Len(response[p].results) = 2
        /\ Result(p, 1).risk_score = 70
        /\ Result(p, 2).risk_score = 80
        /\ response[p].summary.high_risk_count = 1
        /\ response[p].summary.anomalies_detected = 2

\* C5: an implementation that triggers no rule gets risk_score 20, no
\* anomaly and no recommendation.
C5_NoRuleNoFinding ==
    \A p \in Procs : Answered(p) =>
        \A i \in Positions(p) :
            (/\ ~SaysOldVersion(Items(p)[i])
             /\ SaysKeyAbsentOrLarge(Items(p)[i])
             /\ ~SaysWeakCipher(Items(p)[i])) =>
                /\ Result(p, i).risk_score = 20
                /\ ~Result(p, i).anomaly_detected
                /\ Result(p, i).recommendations = <<>>

C5_Witness ==
    \E p \in Procs :
        /\ Answered(p)
        /\ Len(Items(p)) = 1
        /\ Items(p)[1].key_size = <<"int", 2048>>
        /\ Items(p)[1].protocol_version[2] = V100
        /\ Items(p)[1].cipher_suite[2] = LowerRc4Md5
        /\ Result(p, 1).risk_score = 20

\* C6: a cipher_suite containing "RC4" or "MD5" gets the cipher
\* recommendation, anomaly_detected and risk_score 90, whatever the version
\* and the key size are; no result has a risk_score above 90.
C6_WeakCipherIs90 ==
    \A p \in Procs : Answered(p) =>
        \A i \in Positions(p) :
            /\ Result(p, i).risk_score <= 90
            /\ SaysWeakCipher(Items(p)[i]) =>
                  /\ RecCipher \in Recs(p, i)
                  /\ Result(p, i).anomaly_detected
                  /\ Result(p, i).risk_score = 90

C6_Witness ==
    \E p \in Procs :
        /\ Answered(p)
        /\ Len(Items(p)) = 1
        /\ Items(p)[1].cipher_suite[2] = DESMD5
        /\ Items(p)[1].protocol_version[2] = V12
        /\ Items(p)[1].key_size = <<"null">>
        /\ Result(p, 1).risk_score = 90

\* C7: protocol_version "1.0" or "1.1" puts the upgrade recommendation
\* first, sets anomaly_detected, and gives risk_score 80, or 90 when the
\* cipher rule fires too; the key-size rule does not lower it.
C7_OldVersionIs80 ==
    \A p \in Procs : Answered(p) =>
        \A i \in Positions(p) : SaysOldVersion(Items(p)[i]) =>
            /\ Result(p, i).recommendations # <<>>
            /\ Result(p, i).recommendations[1] = RecUpgrade
            /\ Result(p, i).anomaly_detected
            /\ Result(p, i).risk_score =
                  (IF SaysWeakCipher(Items(p)[i]) THEN 90 ELSE 80)

C7_Witness ==
    \E p \in Procs :
        /\ Answered(p)
        /\ Len(Items(p)) = 1
        /\ Items(p)[1].protocol_version[2] = V10
        /\ Items(p)[1].key_size = <<"int", 1024>>
        /\ Items(p)[1].cipher_suite[2] = AES256
        /\ Result(p, 1).risk_score = 80
        /\ Len(Result(p, 1).recommendations) = 2

\* C8: with handlers and the other endpoints interleaved in any order, two
\* requests with the same body get the same response, and two
\* implementations that agree on id, protocol_version, cipher_suite and
\* key_size get the same result (confidence 0.95) wherever they stand in
\* their batches and whatever their protocol and confidence_score are.
SameScoredFields(r, s) ==
    /\ r.id = s.id
    /\ r.protocol_version = s.protocol_version
    /\ r.cipher_suite = s.cipher_suite
    /\ r.key_size = s.key_size

C8_OwnBodyOnly ==
    \A p, q \in Procs : (pc[p] = "done" /\ pc[q] = "done") =>
        /\ body[p] = body[q] => response[p] = response[q]
        /\ (Answered(p) /\ Answered(q)
              /\ body[p].analysis_type = body[q].analysis_type) =>
              \A i \in Positions(p), j \in Positions(q) :
                  SameScoredFields(Items(p)[i], Items(q)[j]) =>
                      /\ Result(p, i) = Result(q, j)
                      /\ Result(p, i).confidence = 95

C8_Witness ==
    \E p, q \in Procs :
        /\ Answered(p) /\ Answered(q)
        /\ Items(p) = <<ImplAllWeak, ImplOldVersion>>
        /\ Items(q) = <<ImplOldVersionSsh>>
        /\ Result(p, 2) = Result(q, 1)
        /\ probe.status = StatusNotImplemented

\* C9: within one implementation the steps run version, key size, cipher;
\* no step lowers risk_score, clears anomaly_detected or does anything to
\* recommendations but append; when the three rules fire the result has
\* risk_score 90 and the three recommendations in rule order.
IsPrefix(s, t) == Len(s) <= Len(t) /\ SubSeq(t, 1, Len(s)) = s

RuleStep(p) ==
    pc[p] \in {"version", "keysize", "cipher"} =>
        \/ /\ pc'[p] = pc[p]
           /\ risk_score'[p] = risk_score[p]
           /\ anomaly_detected'[p] = anomaly_detected[p]
           /\ recommendations'[p] = recommendations[p]
        \/ /\ pc'[p] = (CASE pc[p] = "version" -> "keysize"
                          [] pc[p] = "keysize" -> "cipher"
                          [] pc[p] = "cipher" -> "emit")
           /\ idx'[p] = idx[p]
           /\ risk_score'[p] >= risk_score[p]
           /\ anomaly_detected[p] => anomaly_detected'[p]
           /\ IsPrefix(recommendations[p], recommendations'[p])
           /\ Len(recommendations'[p]) <= Len(recommendations[p]) + 1

AllThreeFire(r) == SaysOldVersion(r) /\ KeyRuleFires(r) /\ SaysWeakCipher(r)

AllThreeResult ==
    \A p \in Procs : Answered(p) =>
        \A i \in Positions(p) : AllThreeFire(Items(p)[i]) =>
            /\ Result(p, i).risk_score = 90
            /\ Result(p, i).recommendations = <<RecUpgrade, RecKeySize, RecCipher>>

C9_RulesOnlyRaise ==
    /\ [][\A p \in Procs : RuleStep(p)]_vars
    /\ []AllThreeResult

C9_Witness ==
    \E p \in Procs :
        /\ pc[p] = "emit"
        /\ risk_score[p] = 90
        /\ recommendations[p] = <<RecUpgrade, RecKeySize, RecCipher>>

\* C10: every result has risk_score 20, 70, 80 or 90; anomaly_detected,
\* a non-empty recommendations list and risk_score > 20 go together; so
\* high_risk_count <= anomalies_detected <= total_analyzed.  An
\* implementation that triggers the key-size rule alone scores exactly 70,
\* and a batch of such implementations is "low" with anomalies.
KeyRuleAlone(r) ==
    ~SaysOldVersion(r) /\ KeyRuleFires(r) /\ ~SaysWeakCipher(r)

C10_ScoresAndFlags ==
    \A p \in Procs : Answered(p) =>
        LET sm == response[p].summary
        IN  /\ \A i \in Positions(p) :
                  /\ Result(p, i).risk_score \in {20, 70, 80, 90}
                  /\ Result(p, i).anomaly_detected <=>
                        Result(p, i).recommendations # <<>>
                  /\ Result(p, i).anomaly_detected <=> Result(p, i).risk_score > 20
                  /\ KeyRuleAlone(Items(p)[i]) => Result(p, i).risk_score = 70
            /\ sm.high_risk_count <= sm.anomalies_detected
            /\ sm.anomalies_detected <= sm.total_analyzed
            /\ (Items(p) # <<>> /\ \A i \in Positions(p) : KeyRuleAlone(Items(p)[i])) =>
                  /\ sm.overall_risk_level = "low"
                  /\ sm.high_risk_count = 0
                  /\ sm.anomalies_detected = Len(Items(p))

C10_Witness ==
    \E p \in Procs :
        /\ Answered(p)
        /\ Len(Items(p)) = 2
        /\ \A i \in Positions(p) : KeyRuleAlone(Items(p)[i])
        /\ response[p].summary.overall_risk_level = "low"
        /\ response[p].summary.anomalies_detected = 2

====
